---------------------------- MODULE Spec2Model ----------------------------
(***************************************************************************)
(* A model of the two organizer scripts of jellyfin-local:                 *)
(*   organize_shows.py   (class ShowOrganizer and main)                    *)
(*   organize_fringe.py  (the single-show script)                          *)
(* File names, show keys and generated names are sequences of one-         *)
(* character strings, so that the regular expressions, str.strip,          *)
(* str.lower, Path.suffix and the f-strings are computed character by      *)
(* character, as the scripts compute them.                                 *)
(***************************************************************************)
EXTENDS Integers, Sequences, FiniteSets, TLC

(***************************************************************************)
(* Bounds of the model.                                                    *)
(***************************************************************************)
\* the largest number of entries of the source directory
MaxFiles == 2
\* the largest number of filesystem errors the environment raises in one run
MaxFaults == 1

\* Python's None: a value no text equals
None == <<"None">>
\* str(None), as an f-string formats it
NoneText == <<"N","o","n","e">>

(***************************************************************************)
(* Characters and strings.                                                 *)
(***************************************************************************)
\* the characters of the model, in code point order
Ascii ==
    <<" ","(",")","-",".","0","1","2","3","4","5","6","7","8","9","A","B","C","D","E","F","G","H","I","J","K","L","M","N","O","P","Q","R","S","T","U","V","W","X","Y","Z","_","a","b","c","d","e","f","g","h","i","j","k","l","m","n","o","p","q","r","s","t","u","v","w","x","y","z">>
UpperCase ==
    <<"A","B","C","D","E","F","G","H","I","J","K","L","M","N","O","P","Q","R","S","T","U","V","W","X","Y","Z">>
LowerCase ==
    <<"a","b","c","d","e","f","g","h","i","j","k","l","m","n","o","p","q","r","s","t","u","v","w","x","y","z">>
\* the place of a character in the code point order
Ord(c) == CHOOSE k \in DOMAIN Ascii : Ascii[k] = c
\* the regular expression class \s, and what str.strip removes
Whitespace == {" ", "\t", "\n", "\r", "\f"}
IsSpace(c) == c \in Whitespace
\* the regular expression class \d
Digits == {"0","1","2","3","4","5","6","7","8","9"}
IsDigit(c) == c \in Digits
\* the regular expression atom . (any character but a line break)
IsDot(c) == c # "\n"
\* one character lowercased: str.lower, and the folding of re.IGNORECASE
Fold(c) ==
    IF \E k \in DOMAIN UpperCase : UpperCase[k] = c
    THEN LowerCase[CHOOSE k \in DOMAIN UpperCase : UpperCase[k] = c]
    ELSE c
\* str.lower
lower(s) == [k \in DOMAIN s |-> Fold(s[k])]
\* str.strip
strip(s) ==
    LET keep == {k \in DOMAIN s : ~IsSpace(s[k])}
    IN  IF keep = {} THEN <<>>
        ELSE LET a == CHOOSE k \in keep : \A j \in keep : k <= j
                 b == CHOOSE k \in keep : \A j \in keep : j <= k
             IN  SubSeq(s, a, b)
\* str.endswith
endswith(s, t) ==
    /\ Len(t) <= Len(s)
    /\ SubSeq(s, Len(s) - Len(t) + 1, Len(s)) = t
\* Path.suffix: the last dot of the name and what follows it, unless that dot
\* is the first or the last character of the name
suffix(name) ==
    LET dots == {k \in DOMAIN name : name[k] = "."}
    IN  IF dots = {} THEN <<>>
        ELSE LET i == CHOOSE k \in dots : \A j \in dots : j <= k
             IN  IF 1 < i /\ i < Len(name) THEN SubSeq(name, i, Len(name)) ELSE <<>>
\* the order of str (and of Path) comparison: lexicographic by code point
StrLess(a, b) ==
    \E k \in 1..(Len(a) + 1) :
        /\ k <= Len(b)
        /\ \A j \in 1..(k - 1) : a[j] = b[j]
        /\ (k = Len(a) + 1 \/ Ord(a[k]) < Ord(b[k]))
\* sorted(files)
RECURSIVE sorted(_)
sorted(S) ==
    IF S = {} THEN <<>>
    ELSE LET m == CHOOSE x \in S : \A y \in S \ {x} : StrLess(x, y)
         IN  <<m>> \o sorted(S \ {m})

(***************************************************************************)
(* Regular expressions.  Every pattern of the two scripts has the shape    *)
(*     LIT GAP S(\d{2})E(\d{2})   [ \s+(.+?)\s+\(.*?\) ]                   *)
(* where LIT is the show's literal text, GAP is \s+ or one blank, and the  *)
(* bracketed tail is present or not.  A pattern is the record              *)
(* [lit, gap, tail, groups]; groups is its number of capture groups.       *)
(* re.search is modelled with the backtracking order of Python's engine:   *)
(* the leftmost start, greedy \s+ from its longest run down, lazy .+? from *)
(* one character up.                                                       *)
(***************************************************************************)
\* the least and the greatest of a set of positions
Min(S) == CHOOSE x \in S : \A y \in S : x <= y
Max(S) == CHOOSE x \in S : \A y \in S : y <= x
\* the length of the longest run of whitespace of s from position p on
SpaceRun(s, p) ==
    Min({k \in p..(Len(s) + 1) : k = Len(s) + 1 \/ ~IsSpace(s[k])} \cup {Len(s) + 1}) - p
\* one literal character of a pattern against one of the text
CharEq(c, d, ignorecase) == IF ignorecase THEN Fold(c) = Fold(d) ELSE c = d
\* the literal text lit at position p of s
LitAt(lit, s, p, ignorecase) ==
    /\ p + Len(lit) - 1 <= Len(s)
    /\ \A k \in DOMAIN lit : CharEq(lit[k], s[p + k - 1], ignorecase)
\* GAP at position g, where w is the run of whitespace there: the position
\* that follows, or 0
GapAt(gap, s, g, w) ==
    IF gap = "\\s+"
    THEN (IF w >= 1 THEN g + w ELSE 0)
    ELSE (IF g <= Len(s) /\ s[g] = " " THEN g + 1 ELSE 0)
\* LIT GAP at position p: the position that follows, or 0
GapEnd(pat, s, p, ignorecase) ==
    IF LitAt(pat.lit, s, p, ignorecase)
    THEN GapAt(pat.gap, s, p + Len(pat.lit), SpaceRun(s, p + Len(pat.lit)))
    ELSE 0
\* S\d{2}E\d{2} at position a
CodeAt(s, a, ignorecase) ==
    /\ a >= 1
    /\ a + 5 <= Len(s)
    /\ CharEq("S", s[a], ignorecase)
    /\ IsDigit(s[a + 1]) /\ IsDigit(s[a + 2])
    /\ CharEq("E", s[a + 3], ignorecase)
    /\ IsDigit(s[a + 4]) /\ IsDigit(s[a + 5])
\* \(.*?\) at position o: an opening parenthesis and, later on the same
\* line, a closing one
ParenAt(s, o) ==
    /\ o <= Len(s)
    /\ s[o] = "("
    /\ \E q \in (o + 1)..Len(s) :
          /\ s[q] = ")"
          /\ \A j \in (o + 1)..(q - 1) : IsDot(s[j])
\* \s+\(.*?\) at position d, where w is the run of whitespace there
CloseAt(s, d, w) == w >= 1 /\ ParenAt(s, d + w)
\* (.+?)\s+\(.*?\) with the group at c..c+t-1
TitleAt(s, c, t) ==
    /\ t >= 1
    /\ c + t - 1 <= Len(s)
    /\ \A j \in c..(c + t - 1) : IsDot(s[j])
    /\ CloseAt(s, c + t, SpaceRun(s, c + t))
\* (.+?)\s+\(.*?\) at position c: the span <<c, t>> of the group, the lazy
\* .+? taking the fewest characters it can
TitleSpan(s, c, ts) == <<c, Min(ts)>>
\* the tail, given the lengths the greedy first \s+ can take: the engine
\* tries the longest first
TailFrom(s, b, ways) ==
    IF ways = {} THEN <<0, 0>>
    ELSE TitleSpan(s, b + Max(ways), {t \in 1..Len(s) : TitleAt(s, b + Max(ways), t)})
\* the tail \s+(.+?)\s+\(.*?\) at position b: the span <<c, t>> of its group
\* in the first way the engine finds, or <<0, 0>>
TailAt(s, b) ==
    TailFrom(s, b, {k \in 1..SpaceRun(s, b) : \E t \in 1..Len(s) : TitleAt(s, b + k, t)})
\* the rest of the pattern after LIT GAP, at position a (0: LIT GAP failed)
CodeTailAt(pat, s, a, ignorecase) ==
    /\ a > 0
    /\ CodeAt(s, a, ignorecase)
    /\ (pat.tail => TailAt(s, a + 6)[1] > 0)
\* the pattern at position p: TRUE when it matches there
MatchAt(pat, s, p, ignorecase) ==
    CodeTailAt(pat, s, GapEnd(pat, s, p, ignorecase), ignorecase)
\* what re.search returns when nothing matches (Python's None, falsy)
NoMatch == [hit |-> FALSE, season |-> None, episode |-> None, text |-> None]
\* the match object: S at position a, the group of the tail at span g
Groups(pat, s, a, g) ==
    [hit     |-> TRUE,
     season  |-> SubSeq(s, a + 1, a + 2),
     episode |-> SubSeq(s, a + 4, a + 5),
     text    |-> IF pat.tail THEN SubSeq(s, g[1], g[1] + g[2] - 1) ELSE None]
\* the match object of a match whose S is at position a
GroupsAt(pat, s, a) == Groups(pat, s, a, IF pat.tail THEN TailAt(s, a + 6) ELSE <<0, 0>>)
\* the match at the leftmost of the positions where the pattern matches
Leftmost(pat, s, ignorecase, starts) ==
    IF starts = {} THEN NoMatch
    ELSE GroupsAt(pat, s, GapEnd(pat, s, Min(starts), ignorecase))
\* re.search(pattern, s, flags): NoMatch, or the match with its groups
\* (season, episode and, of a pattern with a tail, the text of (.+?))
re_search(pat, s, ignorecase) ==
    Leftmost(pat, s, ignorecase, {p \in DOMAIN s : MatchAt(pat, s, p, ignorecase)})

(***************************************************************************)
(* The file names the source directory is drawn from.                      *)
(***************************************************************************)
\* Fringe S04E01 Pilot (1080p).mp4
F_Pilot1080 ==
    <<"F","r","i","n","g","e"," ","S","0","4","E","0","1"," ","P","i","l","o","t"," ","(","1","0","8","0","p",")",".","m","p","4">>
\* Fringe S04E01 Pilot (720p).mp4
F_Pilot720 ==
    <<"F","r","i","n","g","e"," ","S","0","4","E","0","1"," ","P","i","l","o","t"," ","(","7","2","0","p",")",".","m","p","4">>
\* Fringe S04E01   (x).mp4
F_Blank ==
    <<"F","r","i","n","g","e"," ","S","0","4","E","0","1"," "," "," ","(","x",")",".","m","p","4">>
\* Fringe S04E02.mp4
F_Bare ==
    <<"F","r","i","n","g","e"," ","S","0","4","E","0","2",".","m","p","4">>
\* fringe  s04e03 Olivia (x).MKV
F_Lower ==
    <<"f","r","i","n","g","e"," "," ","s","0","4","e","0","3"," ","O","l","i","v","i","a"," ","(","x",")",".","M","K","V">>
\* random_video.mp4
F_Random ==
    <<"r","a","n","d","o","m","_","v","i","d","e","o",".","m","p","4">>
\* BSG S01E01 33 (720p).mkv
F_Bsg ==
    <<"B","S","G"," ","S","0","1","E","0","1"," ","3","3"," ","(","7","2","0","p",")",".","m","k","v">>
\* Fringe S4E1 T (x).avi
F_Short ==
    <<"F","r","i","n","g","e"," ","S","4","E","1"," ","T"," ","(","x",")",".","a","v","i">>
\* Fringe S04E05 T (x).ts
F_Ts ==
    <<"F","r","i","n","g","e"," ","S","0","4","E","0","5"," ","T"," ","(","x",")",".","t","s">>
\* Fringe S04E06 T (x).mp4.part
F_Part ==
    <<"F","r","i","n","g","e"," ","S","0","4","E","0","6"," ","T"," ","(","x",")",".","m","p","4",".","p","a","r","t">>
\* notes.txt
F_Notes ==
    <<"n","o","t","e","s",".","t","x","t">>
\* Fringe S01E01x Fringe S02E02 T (x).m4v
F_Twice ==
    <<"F","r","i","n","g","e"," ","S","0","1","E","0","1","x"," ","F","r","i","n","g","e"," ","S","0","2","E","0","2"," ","T"," ","(","x",")",".","m","4","v">>
Universe ==
    {F_Pilot1080, F_Pilot720, F_Blank, F_Bare, F_Lower, F_Random,
     F_Bsg, F_Short, F_Ts, F_Part, F_Notes, F_Twice}

(***************************************************************************)
(* organize_shows.py: class ShowOrganizer.                                 *)
(***************************************************************************)
KeyFringe == <<"f","r","i","n","g","e">>
KeyBattlestar == <<"b","a","t","t","l","e","s","t","a","r">>
\* ShowOrganizer.SHOWS, the registry of show configurations
SHOWS ==
    [k \in {KeyFringe, KeyBattlestar} |->
        IF k = KeyFringe
        THEN [name        |-> <<"F","r","i","n","g","e">>,
              patterns    |-> <<[lit    |-> <<"F","r","i","n","g","e">>,
                                 gap    |-> "\\s+",
                                 tail   |-> TRUE,
                                 groups |-> 3]>>,
              output_name |-> <<"F","r","i","n","g","e">>]
        ELSE [name        |-> <<"B","a","t","t","l","e","s","t","a","r"," ","G","a","l","a","c","t","i","c","a">>,
              patterns    |-> <<[lit    |-> <<"B","S","G">>,
                                 gap    |-> "\\s+",
                                 tail   |-> TRUE,
                                 groups |-> 3]>>,
              output_name |-> <<"B","a","t","t","l","e","s","t","a","r"," ","G","a","l","a","c","t","i","c","a">>]]

\* the truth value Python gives a str or None: None and "" are false
Truthy(x) == x # None /\ x # <<>>
\* a value as an f-string formats it
Str(x) == IF x = None THEN NoneText ELSE x

\* title = match.group(3).strip() if len(match.groups()) >= 3 else None
group_title(groups, text) == IF groups >= 3 THEN strip(text) ELSE None

\* return season, episode, title
Fields(pat, match) ==
    <<match.season, match.episode, group_title(pat.groups, match.text)>>
\* a slip of parse_episode_info: a name no pattern matches gets the season and
\* episode "00" where the code returns None, None, None
FirstMatch_default(pats, filename, hits) ==
    IF hits = {} THEN <<<<"0","0">>, <<"0","0">>, None>>
    ELSE Fields(pats[Min(hits)], re_search(pats[Min(hits)], filename, TRUE))
\* "for pattern in patterns: ... if match: return ..." and, after the loop,
\* "return None, None, None"; hits are the patterns that match
FirstMatch(pats, filename, hits) ==
    IF hits = {} THEN <<None, None, None>>
    ELSE Fields(pats[Min(hits)], re_search(pats[Min(hits)], filename, TRUE))
\* ShowOrganizer.parse_episode_info: <<season, episode, title>> of the first
\* pattern of the show that matches, or <<None, None, None>>
parse_episode_info(config, filename) ==
    FirstMatch(config.patterns, filename,
               {k \in DOMAIN config.patterns : re_search(config.patterns[k], filename, TRUE).hit})

\* a slip of create_jellyfin_filename: "if title is not None" for "if title"
create_jellyfin_filename_not_none(config, season, episode, title, extension) ==
    IF title # None
    THEN config.name \o <<" ","-"," ","S">> \o Str(season) \o <<"E">> \o Str(episode)
             \o <<" ","-"," ">> \o Str(title) \o extension
    ELSE config.name \o <<" ","-"," ","S">> \o Str(season) \o <<"E">> \o Str(episode)
             \o extension
\* ShowOrganizer.create_jellyfin_filename
create_jellyfin_filename(config, season, episode, title, extension) ==
    IF Truthy(title)
    THEN config.name \o <<" ","-"," ","S">> \o Str(season) \o <<"E">> \o Str(episode)
             \o <<" ","-"," ">> \o Str(title) \o extension
    ELSE config.name \o <<" ","-"," ","S">> \o Str(season) \o <<"E">> \o Str(episode)
             \o extension

\* video_extensions of ShowOrganizer.organize
video_extensions ==
    {<<".","m","4","v">>, <<".","m","p","4">>, <<".","m","k","v">>,
     <<".","a","v","i">>, <<".","t","s">>}
\* the entries of the source directory that organize takes into files
Eligible(name) ==
    /\ ~endswith(name, <<".","p","a","r","t">>)
    /\ lower(suffix(name)) \in video_extensions

\* a slip of the test of line 128: the check left out
Unparseable_never(season, episode) == FALSE
\* "if not season or not episode": the file cannot be parsed
Unparseable(season, episode) == ~Truthy(season) \/ ~Truthy(episode)

\* a slip of line 139: mkdir outside "if not dry_run"
MakesDirs_always(dry) == TRUE
\* "if not dry_run:" before season_dir.mkdir
MakesDirs(dry) == ~dry
\* a slip of line 151: shutil.copy2 outside "if not dry_run"
Copies_always(dry) == TRUE
\* "if not dry_run:" before shutil.copy2
Copies(dry) == ~dry

\* season_dir, relative to dest_base: f"Season {season}"
season_dir(season) == <<"S","e","a","s","o","n"," ">> \o Str(season)

(***************************************************************************)
(* organize_fringe.py.                                                     *)
(***************************************************************************)
\* the pattern of parse_episode_info: Fringe S(\d{2})E(\d{2})
FringeCodePattern ==
    [lit |-> <<"F","r","i","n","g","e">>, gap |-> " ", tail |-> FALSE, groups |-> 2]
\* the pattern of get_episode_title: Fringe S\d{2}E\d{2}\s+(.+?)\s+\(.*?\)
FringeTitlePattern ==
    [lit |-> <<"F","r","i","n","g","e">>, gap |-> " ", tail |-> TRUE, groups |-> 1]
\* parse_episode_info of organize_fringe: <<season, episode>> or <<None, None>>
SeasonEpisode(match) ==
    IF match.hit THEN <<match.season, match.episode>> ELSE <<None, None>>
fringe_parse_episode_info(filename) ==
    SeasonEpisode(re_search(FringeCodePattern, filename, FALSE))
\* get_episode_title of organize_fringe
TitleOf(match) == IF match.hit THEN strip(match.text) ELSE None
get_episode_title(filename) == TitleOf(re_search(FringeTitlePattern, filename, FALSE))
\* create_jellyfin_filename of organize_fringe
fringe_create_jellyfin_filename(season, episode, title, extension) ==
    IF Truthy(title)
    THEN <<"F","r","i","n","g","e"," ","-"," ","S">> \o Str(season) \o <<"E">> \o Str(episode)
             \o <<" ","-"," ">> \o Str(title) \o extension
    ELSE <<"F","r","i","n","g","e"," ","-"," ","S">> \o Str(season) \o <<"E">> \o Str(episode)
             \o extension
\* video_extensions of organize_fringe
fringe_video_extensions ==
    {<<".","m","4","v">>, <<".","m","p","4">>, <<".","m","k","v">>, <<".","a","v","i">>}
\* the entries of the source directory that organize_fringe takes into files
FringeEligible(name) ==
    /\ ~endswith(name, <<".","p","a","r","t">>)
    /\ suffix(name) \in fringe_video_extensions

(***************************************************************************)
(* The runs.  One source directory and one command line are given to four  *)
(* runs, each on its own copy of an empty destination tree:                *)
(* organize_shows with and without --dry-run, organize_fringe with and     *)
(* without --dry-run.  The runs are separate processes that share          *)
(* nothing; they are taken one after the other.                            *)
(***************************************************************************)
Order == <<"shows_dry", "shows_real", "fringe_dry", "fringe_real">>
Execs == {Order[k] : k \in DOMAIN Order}
\* the script a run executes
Script(e) == IF e \in {"shows_dry", "shows_real"} THEN "organize_shows" ELSE "organize_fringe"
\* args.dry_run of a run
dry_run(e) == e \in {"shows_dry", "fringe_dry"}

\* the values of the positional argument show
ShowArgs ==
    {<<"F","r","i","n","g","e">>, <<"b","a","t","t","l","e","s","t","a","r">>, <<"l","o","s","t">>}

VARIABLES
    show,           \* args.show (organize_shows only)
    source_exists,  \* source_dir.exists()
    entries,        \* the names of the files of the source directory
    pc,             \* where each run is: "start", "loop", "exited"
    files,          \* sorted(files) of each run
    idx,            \* the place in sorted(files) of the file the loop takes next
    copied_count,
    skipped_count,
    dirs,           \* the season directories under dest_base
    dest,           \* the files under dest_base: <<season directory, name>> -> content
    log,            \* what the run printed about each file it took
    faults,         \* the filesystem errors raised so far
    exit_status,    \* the exit status of the process, once pc is "exited"
    summary,        \* the final summary has been printed
    call            \* one call of the file name builder (SpecFilename)

vars == <<show, source_exists, entries, pc, files, idx, copied_count, skipped_count,
          dirs, dest, log, faults, exit_status, summary, call>>

\* no call of the file name builder
NoCall ==
    [key |-> None, season |-> None, episode |-> None, groups |-> 0, text |-> None,
     extension |-> None, title |-> None, result |-> None, done |-> FALSE]

\* the empty destination tree
NoFiles == [p \in {} |-> None]

InitRuns ==
    /\ pc = [e \in Execs |-> "start"]
    /\ files = [e \in Execs |-> <<>>]
    /\ idx = [e \in Execs |-> 1]
    /\ copied_count = [e \in Execs |-> 0]
    /\ skipped_count = [e \in Execs |-> 0]
    /\ dirs = [e \in Execs |-> {}]
    /\ dest = [e \in Execs |-> NoFiles]
    /\ log = [e \in Execs |-> <<>>]
    /\ faults = [e \in Execs |-> 0]
    /\ exit_status = [e \in Execs |-> 0]
    /\ summary = [e \in Execs |-> FALSE]

Init ==
    /\ show \in ShowArgs
    /\ source_exists \in BOOLEAN
    /\ entries \in {S \in SUBSET Universe : Cardinality(S) <= MaxFiles}
    /\ (~source_exists => entries = {})
    /\ InitRuns
    /\ call = NoCall

\* a run is taken when the runs before it have exited
Turn(e) == \A k \in DOMAIN Order : (\E j \in DOMAIN Order : j > k /\ Order[j] = e) => pc[Order[k]] = "exited"

\* the process of run e ends with exit status s
Exit(e, s) ==
    /\ pc' = [pc EXCEPT ![e] = "exited"]
    /\ exit_status' = [exit_status EXCEPT ![e] = s]

\* the show configuration of a run of organize_shows
show_config == SHOWS[lower(show)]

\* the names a run takes into files
Found(e) ==
    IF Script(e) = "organize_shows"
    THEN {n \in entries : Eligible(n)}
    ELSE {n \in entries : FringeEligible(n)}

\* main, up to the loop: the arguments, the organizer, the source directory,
\* the list of video files
Start(e) ==
    /\ Turn(e)
    /\ pc[e] = "start"
    /\ IF Script(e) = "organize_shows" /\ lower(show) \notin DOMAIN SHOWS
       THEN \* ShowOrganizer.__init__ raises ValueError; main returns 1
            /\ Exit(e, 1)
            /\ UNCHANGED files
       ELSE IF ~source_exists \/ Found(e) = {}
       THEN \* organize returns False (organize_fringe: main returns None)
            /\ Exit(e, 0)
            /\ UNCHANGED files
       ELSE /\ pc' = [pc EXCEPT ![e] = "loop"]
            /\ files' = [files EXCEPT ![e] = sorted(Found(e))]
            /\ UNCHANGED exit_status
    /\ UNCHANGED <<show, source_exists, entries, idx, copied_count, skipped_count,
                   dirs, dest, log, faults, summary, call>>

\* season, episode = parse_episode_info(file.name) and, later,
\* title = get_episode_title(file.name), of organize_fringe
FringeInfo(pair, title) == <<pair[1], pair[2], title>>
\* <<season, episode, title>> as the script of run e extracts them
Info(e, filename) ==
    IF Script(e) = "organize_shows"
    THEN parse_episode_info(show_config, filename)
    ELSE FringeInfo(fringe_parse_episode_info(filename), get_episode_title(filename))
\* new_filename as the script of run e builds it
NewFilename(e, season, episode, title, extension) ==
    IF Script(e) = "organize_shows"
    THEN create_jellyfin_filename(show_config, season, episode, title, extension)
    ELSE fringe_create_jellyfin_filename(season, episode, title, extension)

\* what season_dir.mkdir(parents=True, exist_ok=True) may do: succeed, or
\* raise OSError (no permission, a file of that name, a full disk)
MkdirOutcomes(e) ==
    IF MakesDirs(dry_run(e)) /\ faults[e] < MaxFaults THEN {"ok", "error"} ELSE {"ok"}
\* what shutil.copy2 may do: succeed, raise before it writes ("error"),
\* raise with the destination partly written ("torn"), or raise after the
\* contents are written, while it copies the metadata ("late")
CopyOutcomes(e) ==
    IF Copies(dry_run(e)) /\ faults[e] < MaxFaults
    THEN {"ok", "error", "torn", "late"}
    ELSE {"ok"}

\* d with the file at path replaced by content
Put(d, path, content) ==
    [p \in DOMAIN d \cup {path} |-> IF p = path THEN content ELSE d[p]]

\* one line of the log
Entry(file, info, to, result) ==
    [file |-> file, season |-> info[1], episode |-> info[2], title |-> info[3],
     to |-> to, result |-> result]

\* "Skipping (couldn't parse)", skipped_count += 1, continue
SkipFile(e, file, info) ==
    /\ skipped_count' = [skipped_count EXCEPT ![e] = @ + 1]
    /\ log' = [log EXCEPT ![e] = Append(@, Entry(file, info, None, "unparseable"))]
    /\ idx' = [idx EXCEPT ![e] = @ + 1]
    /\ UNCHANGED <<pc, copied_count, dirs, dest, faults, exit_status, summary>>

\* season_dir.mkdir raises outside the try: the exception leaves organize
\* and main, and the interpreter exits with status 1
MkdirRaises(e, file, info) ==
    /\ Exit(e, 1)
    /\ faults' = [faults EXCEPT ![e] = @ + 1]
    /\ log' = [log EXCEPT ![e] = Append(@, Entry(file, info, None, "raised"))]
    /\ UNCHANGED <<idx, copied_count, skipped_count, dirs, dest, summary>>

\* the try block: shutil.copy2 unless dry_run, copied_count += 1, "Success"
CopyDone(e, file, info, dest_file) ==
    /\ dest' = [dest EXCEPT ![e] =
                  IF Copies(dry_run(e))
                  THEN Put(@, dest_file, [src |-> file, whole |-> TRUE])
                  ELSE @]
    /\ copied_count' = [copied_count EXCEPT ![e] = @ + 1]
    /\ log' = [log EXCEPT ![e] = Append(@, Entry(file, info, dest_file, "copied"))]
    /\ UNCHANGED <<skipped_count, faults>>

\* shutil.copy2 raises: "except Exception", "Error", skipped_count += 1
CopyRaises(e, file, info, dest_file, cp) ==
    /\ dest' = [dest EXCEPT ![e] =
                  IF cp \in {"torn", "late"}
                  THEN Put(@, dest_file, [src |-> file, whole |-> (cp = "late")])
                  ELSE @]
    /\ skipped_count' = [skipped_count EXCEPT ![e] = @ + 1]
    /\ faults' = [faults EXCEPT ![e] = @ + 1]
    /\ log' = [log EXCEPT ![e] = Append(@, Entry(file, info, dest_file, "error"))]
    /\ UNCHANGED copied_count

\* the loop body of a file that was parsed: the season directory, the new
\* name, the copy
CopyFile(e, file, info, dest_file) ==
    \E mk \in MkdirOutcomes(e) :
        IF mk = "error"
        THEN MkdirRaises(e, file, info)
        ELSE \E cp \in CopyOutcomes(e) :
             /\ dirs' = [dirs EXCEPT ![e] =
                           IF MakesDirs(dry_run(e)) THEN @ \cup {dest_file[1]} ELSE @]
             /\ IF cp = "ok"
                THEN CopyDone(e, file, info, dest_file)
                ELSE CopyRaises(e, file, info, dest_file, cp)
             /\ idx' = [idx EXCEPT ![e] = @ + 1]
             /\ UNCHANGED <<pc, exit_status, summary>>

\* the loop body, with what was extracted from the name of the file
Body(e, file, info) ==
    IF Unparseable(info[1], info[2])
    THEN SkipFile(e, file, info)
    ELSE CopyFile(e, file, info,
                  <<season_dir(info[1]),
                    NewFilename(e, info[1], info[2], info[3], suffix(file))>>)

\* one turn of "for file in sorted(files)"
Iterate(e) ==
    /\ Turn(e)
    /\ pc[e] = "loop"
    /\ idx[e] <= Len(files[e])
    /\ Body(e, files[e][idx[e]], Info(e, files[e][idx[e]]))
    /\ UNCHANGED <<show, source_exists, entries, files, call>>

\* after the loop: the summary, organize returns True, main returns 0
Finish(e) ==
    /\ Turn(e)
    /\ pc[e] = "loop"
    /\ idx[e] > Len(files[e])
    /\ summary' = [summary EXCEPT ![e] = TRUE]
    /\ Exit(e, 0)
    /\ UNCHANGED <<show, source_exists, entries, files, idx, copied_count, skipped_count,
                   dirs, dest, log, faults, call>>

Next == \E e \in Execs : Start(e) \/ Iterate(e) \/ Finish(e)

Spec == Init /\ [][Next]_vars

(***************************************************************************)
(* The file name builder alone: one call of parse_episode_info's title     *)
(* rule (line 51) followed by create_jellyfin_filename, on inputs drawn    *)
(* from small sets.                                                        *)
(***************************************************************************)
CallKeys == {KeyFringe, KeyBattlestar}
CallSeasons == {<<"0","4">>, <<"1","2">>}
CallEpisodes == {<<"0","1">>, <<"1","0">>}
\* what group 3 may hold: blanks only, a title, a title between blanks
CallTexts ==
    {<<" ">>, <<" "," ">>, <<"P","i","l","o","t">>, <<" ","O","l","i","v","i","a"," ">>, <<"-">>}
\* the number of groups of the pattern that matched
CallGroups == {2, 3}
CallExtensions == {<<".","m","p","4">>, <<".","m","k","v">>, <<>>}

InitFilename ==
    /\ call \in [key : CallKeys, season : CallSeasons, episode : CallEpisodes,
                 groups : CallGroups, text : CallTexts, extension : CallExtensions,
                 title : {None}, result : {None}, done : {FALSE}]
    /\ show = KeyFringe
    /\ source_exists = FALSE
    /\ entries = {}
    /\ InitRuns

\* title = ... (line 51), then create_jellyfin_filename(season, episode, title, extension)
Format ==
    /\ ~call.done
    /\ call' = [call EXCEPT
                  !.title = group_title(call.groups, call.text),
                  !.result = create_jellyfin_filename(SHOWS[call.key], call.season, call.episode,
                                 group_title(call.groups, call.text), call.extension),
                  !.done = TRUE]
    /\ UNCHANGED <<show, source_exists, entries, pc, files, idx, copied_count, skipped_count,
                   dirs, dest, log, faults, exit_status, summary>>

NextFilename == Format

SpecFilename == InitFilename /\ [][NextFilename]_vars

(***************************************************************************)
(* The properties.                                                         *)
(***************************************************************************)
\* the two runs of organize_shows
Shows == {"shows_dry", "shows_real"}
\* a text of exactly two decimal digits
TwoDigits(x) == Len(x) = 2 /\ IsDigit(x[1]) /\ IsDigit(x[2])
\* the name holds S, two digits, E, two digits
HasCode(name) ==
    \E p \in 1..(Len(name) - 5) :
        /\ name[p] = "S" /\ IsDigit(name[p + 1]) /\ IsDigit(name[p + 2])
        /\ name[p + 3] = "E" /\ IsDigit(name[p + 4]) /\ IsDigit(name[p + 5])
\* how the counters class a file the loop took
Class(entry) ==
    IF entry.result = "copied" THEN "copied"
    ELSE IF entry.result \in {"unparseable", "error"} THEN "skipped"
    ELSE "neither"
\* the lines of a log with a given result
Lines(e, results) == {k \in DOMAIN log[e] : log[e][k].result \in results}
\* no pattern of the show matches the name
NoPatternMatches(config, name) ==
    \A k \in DOMAIN config.patterns : ~re_search(config.patterns[k], name, TRUE).hit
\* the show key is not in the registry, or the source directory is missing
ConfigError == lower(show) \notin DOMAIN SHOWS \/ ~source_exists
\* both runs of organize_shows are over
ShowsOver == pc["shows_dry"] = "exited" /\ pc["shows_real"] = "exited"

\* C1: in a real run of organize, a filesystem error on one file (mkdir of its
\* season directory, or its copy) never aborts the batch: the file is counted
\* as skipped, every later file is taken, and the summary is printed.
C1_ErrorNeverAborts ==
    \A k \in Lines("shows_real", {"error", "raised"}) :
        /\ Class(log["shows_real"][k]) = "skipped"
        /\ pc["shows_real"] = "exited" =>
              /\ Len(log["shows_real"]) = Len(files["shows_real"])
              /\ summary["shows_real"]

\* C2: main of organize_shows exits non-zero exactly when the show key is
\* unknown or the source directory is missing, and then nothing was matched,
\* created or copied; every other run exits 0.  (Stated of the runs in which
\* no filesystem error is raised.)
C2_ExitStatus ==
    \A e \in Shows :
        (pc[e] = "exited" /\ faults[e] = 0) =>
            /\ (exit_status[e] # 0) <=> ConfigError
            /\ ConfigError => log[e] = <<>> /\ dirs[e] = {} /\ DOMAIN dest[e] = {}

C4_DryRunWritesNothing ==
    \A e \in Execs :
        dry_run(e) =>
            /\ dirs[e] = {}
            /\ DOMAIN dest[e] = {}
            /\ copied_count[e] = Cardinality(Lines(e, {"copied"}))
            /\ skipped_count[e] = Cardinality(Lines(e, {"unparseable"}))
            /\ copied_count[e] + skipped_count[e] = Len(log[e])
\* a dry run is over that counted a file as copied and a file as skipped
C4_Witness ==
    /\ pc["shows_dry"] = "exited"
    /\ copied_count["shows_dry"] >= 1
    /\ skipped_count["shows_dry"] >= 1
    /\ summary["shows_dry"]

\* C5: when the loop of organize takes a file whose name no pattern of the
\* show matches, nothing is raised, skipped_count grows by one, copied_count
\* is unchanged, no destination is computed, no directory is created, no file
\* is written, and the loop goes on to the next file.
C5_NoMatchIsSkipped ==
    [][\A e \in Shows :
          (/\ pc[e] = "loop"
           /\ idx[e] <= Len(files[e])
           /\ log'[e] # log[e]
           /\ NoPatternMatches(show_config, files[e][idx[e]]))
          => /\ skipped_count'[e] = skipped_count[e] + 1
             /\ copied_count'[e] = copied_count[e]
             /\ dirs'[e] = dirs[e]
             /\ dest'[e] = dest[e]
             /\ pc'[e] = "loop"
             /\ idx'[e] = idx[e] + 1
             /\ log'[e] = Append(log[e],
                    [file |-> files[e][idx[e]], season |-> None, episode |-> None,
                     title |-> None, to |-> None, result |-> "unparseable"])]_vars
\* the real run took a file that no pattern matches, after one that it copied
C5_Witness ==
    /\ pc["shows_real"] = "loop"
    /\ Len(log["shows_real"]) = 2
    /\ log["shows_real"][1].result = "copied"
    /\ log["shows_real"][2].result = "unparseable"
    /\ NoPatternMatches(show_config, log["shows_real"][2].file)

\* C6: a file reaches mkdir or the copy only with a season and an episode of
\* exactly two decimal digits each: every directory is "Season DD", every
\* destination name holds SDDEDD, and a file that lacks either field is
\* unparseable.
C6_TwoDigits ==
    \A e \in Execs :
        /\ \A k \in DOMAIN log[e] :
              IF log[e][k].result = "unparseable"
              THEN log[e][k].to = None
              ELSE /\ TwoDigits(log[e][k].season)
                   /\ TwoDigits(log[e][k].episode)
                   /\ log[e][k].to # None => HasCode(log[e][k].to[2])
        /\ \A k \in DOMAIN log[e] :
              ~Truthy(log[e][k].season) \/ ~Truthy(log[e][k].episode)
                 => log[e][k].result = "unparseable"
        /\ \A d \in dirs[e] :
              /\ Len(d) = 9
              /\ SubSeq(d, 1, 7) = <<"S","e","a","s","o","n"," ">>
              /\ IsDigit(d[8]) /\ IsDigit(d[9])
        /\ \A p \in DOMAIN dest[e] : p[1] \in dirs[e] /\ HasCode(p[2])
\* a season directory and a file in it exist, and a file was unparseable
C6_Witness ==
    /\ dirs["shows_real"] # {}
    /\ DOMAIN dest["shows_real"] # {}
    /\ Lines("shows_real", {"unparseable"}) # {}

\* C7: with an absent title (None, or empty once trimmed)
\* create_jellyfin_filename returns "{show} - S{season}E{episode}{extension}",
\* which is the titled form without its " - {title}" segment, and the name
\* has no " - " left dangling before the extension.
C7_NoTitleSegment ==
    (call.done /\ ~Truthy(call.title)) =>
        LET stem == SHOWS[call.key].name \o <<" ","-"," ","S">> \o call.season
                        \o <<"E">> \o call.episode
        IN  /\ call.result = stem \o call.extension
            /\ \A t \in {strip(x) : x \in CallTexts} \ {<<>>} :
                  create_jellyfin_filename(SHOWS[call.key], call.season, call.episode,
                                           t, call.extension)
                      = stem \o <<" ","-"," ">> \o t \o call.extension
            /\ endswith(call.result, call.extension)
            /\ ~endswith(SubSeq(call.result, 1, Len(call.result) - Len(call.extension)),
                         <<" ","-"," ">>)
\* a call whose captured title is blanks only, empty once trimmed
C7_Witness ==
    /\ call.done
    /\ call.groups = 3
    /\ call.text = <<" "," ">>
    /\ call.title = <<>>

\* C8: organize_fringe behaves as organize_shows with the fringe profile: the
\* same eligible files, the same classification, the same destinations.
\* (Stated of the runs in which no filesystem error is raised.)
C8_FringeAsShows ==
    (/\ lower(show) = KeyFringe
     /\ faults["shows_real"] = 0 /\ faults["fringe_real"] = 0
     /\ pc["shows_real"] = "exited"
     /\ pc["fringe_real"] = "exited")
    => /\ files["fringe_real"] = files["shows_real"]
       /\ Len(log["fringe_real"]) = Len(log["shows_real"])
       /\ \A k \in DOMAIN log["shows_real"] :
             /\ Class(log["fringe_real"][k]) = Class(log["shows_real"][k])
             /\ log["fringe_real"][k].to = log["shows_real"][k].to

\* C9: when two files of one real run map to the same destination, the later
\* one is counted as skipped and the file written for the earlier one stays.
\* (Stated of the runs in which no filesystem error is raised.)
C9_CollisionIsSkipped ==
    \A j, k \in DOMAIN log["shows_real"] :
        (/\ j < k
         /\ faults["shows_real"] = 0
         /\ log["shows_real"][j].result = "copied"
         /\ log["shows_real"][k].to = log["shows_real"][j].to)
        => /\ Class(log["shows_real"][k]) = "skipped"
           /\ dest["shows_real"][log["shows_real"][j].to].src = log["shows_real"][j].file

\* C10: every eligible file is handled exactly once: copied_count +
\* skipped_count is the number of files the loop has taken, each file taken
\* adds one to exactly one counter, and once the run is over the sum is the
\* number of eligible files.
C10_EveryFileCounted ==
    \A e \in Shows :
        /\ copied_count[e] + skipped_count[e] = Len(log[e])
        /\ copied_count[e] = Cardinality(Lines(e, {"copied"}))
        /\ skipped_count[e] = Cardinality(Lines(e, {"unparseable", "error"}))
        /\ (pc[e] = "exited" /\ files[e] # <<>>) =>
              copied_count[e] + skipped_count[e] = Len(files[e])

=============================================================================
